---- MODULE Spec2Model ----
(***************************************************************************)
(* Line-delimited JSON-RPC 2.0 over stdio, as implemented by               *)
(*   src/test/http_mcp_server.py   (HttpMCPServer, a tool host)            *)
(*   src/test/mock_mcp_server.py   (MockMCPServer, a tool host)            *)
(*   src/docker/mcp-tools-client.py (MCPToolsClient, the relay)            *)
(*                                                                         *)
(* One behaviour of the model is one run of one of the three programs      *)
(* (variable role).  A text line is a record [pad, body]: pad says whether *)
(* the line carries leading/trailing whitespace, body is what              *)
(* json.loads makes of the trimmed text.                                   *)
(***************************************************************************)
EXTENDS Integers, Sequences, FiniteSets, TLC

VARIABLES
    role,           \* which program runs: "http", "mock" (hosts) or "relay"
    initialized,    \* host: self.initialized
    tools,          \* host: self.tools, the names of the descriptors, in order
    hpc,            \* host: position of run(): "loop" or "done"
    hline,          \* host: the raw line read by the current iteration of run()
    hout,           \* host: the lines printed by that iteration
    invoked,        \* host: the tool handlers executed by that iteration
    wasInit,        \* host: self.initialized when that iteration began
    rpc,            \* relay: position of run()/handle_request()
    rline,          \* relay: the raw line read by the current iteration of run()
    rout,           \* relay: the lines printed by that iteration
    branch,         \* relay: the return statement handle_request left by
    response,       \* relay: the text stdout.readline() returned to send_to_server
    exitBy,         \* relay: what ended the for loop of run()
    server_process, \* relay: self.server_process ("None" or "Popen")
    child,          \* the child process: "none", "running", "exited"
    toChild,        \* every line the relay wrote to the child's stdin, in order
    fromChild,      \* the child's stdout pipe: lines written and not yet read
    termSent,       \* relay: terminate() was called on the child
    reaped,         \* relay: wait() returned
    startFailed,    \* relay: some call of start_server() has returned False
    consumed,       \* child host: how many lines of toChild it has read
    errPipe         \* the child's stderr pipe: log lines written, never read

hostVars  == <<initialized, tools, hpc, hline, hout, invoked, wasInit>>
relayVars == <<rpc, rline, rout, branch, response, exitBy, server_process,
               child, toChild, fromChild, termSent, reaped, startFailed,
               consumed, errPipe>>
pipeVars  == <<consumed, errPipe>>
vars      == <<role, hostVars, relayVars>>

(***************************************************************************)
(* Bounds of the model.                                                    *)
(***************************************************************************)
MaxFwd  == 2    \* lines the relay forwards to its child in one run
MaxPipe == 1    \* lines the child may have written ahead of the relay's read
StderrCap == 1  \* log lines the child's stderr pipe holds before a write blocks

(***************************************************************************)
(* JSON-RPC error codes used by the programs.                              *)
(***************************************************************************)
ParseError     == -32700
MethodNotFound == -32601
InvalidParams  == -32602
InternalError  == -32603

(***************************************************************************)
(* JSON values.  Absent marks a key that is not in the object; None is     *)
(* Python's None, which is also what JSON null decodes to and encodes from. *)
(***************************************************************************)
Absent == "absent"
None   == "None"

NoParams == [pk |-> Absent, name |-> Absent, arguments |-> Absent]
NoResult == [rk |-> Absent, tools |-> <<>>, is_error |-> FALSE]
NoError  == [ek |-> Absent, code |-> 0]

\* A line body that is not a JSON object: "blank" (empty text), "malformed"
\* (json.loads raises JSONDecodeError), "value" (valid JSON that is an array,
\* number, string, boolean or null).
Plain(k) == [kind |-> k, method |-> Absent, id |-> Absent,
             params |-> NoParams, result |-> NoResult, error |-> NoError]

\* A JSON object with the given members.
Object(m, i, p, r, e) == [kind |-> "object", method |-> m, id |-> i,
                          params |-> p, result |-> r, error |-> e]

Line(pad, body) == [pad |-> pad, body |-> body]
NoLine == Line(FALSE, Plain("none"))   \* nothing read yet
PyNone == Plain("None")                \* a handler returned None

\* dict.get(key): None when the key is absent.
Get(v) == IF v = Absent THEN None ELSE v


\* str.strip(): the text without its leading and trailing whitespace.
strip(l) == [l EXCEPT !.pad = FALSE]

\* json.dumps(obj): one line of text, no surrounding whitespace.
json_dumps(obj) == Line(FALSE, obj)

\* json.loads(line) of a line it accepts (it raises on "malformed" and "blank").
json_loads(l) == l.body

(***************************************************************************)
(* The tool catalogs built by __init__ (names of the descriptors).         *)
(***************************************************************************)
HttpTools == <<"fetch_url", "check_weather", "get_time", "calculate">>
MockTools == <<"echo", "add", "get_time">>

Hosts == {"http", "mock"}
Roles == Hosts \cup {"relay"}

Catalog(h) == IF h = "mock" THEN MockTools ELSE HttpTools

\* The shapes of params.arguments the model distinguishes.
\*   "good"       a mapping whose values have the types the schema names
\*   "badtype"    a mapping whose values have other types
\*   "notmapping" a JSON value that is no object
ArgKinds == {Absent, "good", "badtype", "notmapping"}

\* params.get("arguments", {}): the empty mapping when the key is absent.
Arguments(params) ==
    IF params.arguments = Absent THEN "empty" ELSE params.arguments

ToolResult(b) == [rk |-> "tool", tools |-> <<>>, is_error |-> b]

\* What a tool handler can do: return a ToolResult, or raise.
Returns(bs) == {[raised |-> FALSE, result |-> ToolResult(b)] : b \in bs}
Raises      == {[raised |-> TRUE, result |-> NoResult]}

(***************************************************************************)
(* HttpMCPServer's tool handlers.                                          *)
(***************************************************************************)
\* args.get is called before the try block; everything after it is inside.
fetch_url(args) ==
    CASE args = "notmapping" -> Raises
      [] args = "good"       -> Returns({TRUE, FALSE})
      [] OTHER               -> Returns({TRUE})

check_weather(args) ==
    IF args = "notmapping" THEN Raises ELSE Returns({FALSE})

\* timezone.upper() has no try block around it.
get_time(args) ==
    IF args \in {"notmapping", "badtype"} THEN Raises ELSE Returns({FALSE})

calculate(args) ==
    CASE args = "notmapping" -> Raises
      [] args = "good"       -> Returns({TRUE, FALSE})
      [] OTHER               -> Returns({TRUE})

(***************************************************************************)
(* Responses.                                                              *)
(***************************************************************************)
\* error_response with the id left out of the answer.
error_response_null_id(request_id, code) ==
    Object(Absent, None, NoParams, NoResult,
           [ek |-> "present", code |-> code])

error_response(request_id, code) ==
    Object(Absent, request_id, NoParams, NoResult,
           [ek |-> "present", code |-> code])

\* A success response that also carries an error member.
success_response_with_error(request_id, result) ==
    Object(Absent, request_id, NoParams, result,
           [ek |-> "present", code |-> 0])

success_response(request_id, result) ==
    Object(Absent, request_id, NoParams, result, NoError)

\* What a handle_* method can do: return a value (a response, or PyNone), or
\* raise; with the value of self.initialized it leaves and the tool handlers
\* it ran.
\* A return that marks the connection initialized whatever was handled.
Ret_sets_initialized(v, init, inv) ==
    [raised |-> FALSE, ret |-> v, initialized |-> TRUE, invoked |-> inv]

Ret(v, init, inv) ==
    [raised |-> FALSE, ret |-> v, initialized |-> init, invoked |-> inv]
Raise(init, inv) ==
    [raised |-> TRUE, ret |-> PyNone, initialized |-> init, invoked |-> inv]

\* handle_initialize that starts the handshake over: it clears the flag.
handle_initialize_reset(self, request_id, params) ==
    IF params.pk = "other"
    THEN {Raise(self.initialized, <<>>)}
    ELSE {Ret(success_response(request_id,
                [rk |-> "init", tools |-> <<>>, is_error |-> FALSE]),
              FALSE, <<>>)}

handle_initialize(self, request_id, params) ==
    IF params.pk = "other"
    THEN {Raise(self.initialized, <<>>)}
    ELSE {Ret(success_response(request_id,
                [rk |-> "init", tools |-> <<>>, is_error |-> FALSE]),
              self.initialized, <<>>)}

\* handle_tools_list that advertises the catalog only after the handshake.
handle_tools_list_gated(self, request_id) ==
    {Ret(success_response(request_id,
            [rk |-> "tools",
             tools |-> IF self.initialized THEN self.tools ELSE <<>>,
             is_error |-> FALSE]),
         self.initialized, <<>>)}

handle_tools_list(self, request_id) ==
    {Ret(success_response(request_id,
            [rk |-> "tools", tools |-> self.tools, is_error |-> FALSE]),
         self.initialized, <<>>)}

\* A dispatch that runs no tool before the handshake has completed.
Called_gated(self, request_id, name, outcomes) ==
    IF self.initialized
    THEN {IF o.raised
          THEN Raise(self.initialized, <<name>>)
          ELSE Ret(success_response(request_id, o.result),
                   self.initialized, <<name>>) : o \in outcomes}
    ELSE {Ret(error_response(request_id, InvalidParams),
              self.initialized, <<>>)}

\* The result of dispatching to one tool handler.
Called(self, request_id, name, outcomes) ==
    {IF o.raised
     THEN Raise(self.initialized, <<name>>)
     ELSE Ret(success_response(request_id, o.result),
              self.initialized, <<name>>) : o \in outcomes}

HttpMCPServer_handle_tool_call(self, request_id, params) ==
    IF params.pk = "other"
    THEN {Raise(self.initialized, <<>>)}
    ELSE LET tool_name == Get(params.name)
             arguments == Arguments(params)
         IN  CASE tool_name = "fetch_url" ->
                    Called(self, request_id, tool_name, fetch_url(arguments))
               [] tool_name = "check_weather" ->
                    Called(self, request_id, tool_name, check_weather(arguments))
               [] tool_name = "get_time" ->
                    Called(self, request_id, tool_name, get_time(arguments))
               [] tool_name = "calculate" ->
                    Called(self, request_id, tool_name, calculate(arguments))
               [] OTHER ->
                    {Ret(error_response(request_id, InvalidParams),
                         self.initialized, <<>>)}

\* MockMCPServer's tools are written inline in handle_tool_call: "echo" and
\* "add" call arguments.get, "add" also evaluates a + b, "get_time" reads no
\* argument.
MockMCPServer_handle_tool_call(self, request_id, params) ==
    IF params.pk = "other"
    THEN {Raise(self.initialized, <<>>)}
    ELSE LET tool_name == Get(params.name)
             arguments == Arguments(params)
         IN  CASE tool_name = "echo" ->
                    Called(self, request_id, tool_name,
                           IF arguments = "notmapping" THEN Raises
                           ELSE Returns({FALSE}))
               [] tool_name = "add" ->
                    Called(self, request_id, tool_name,
                           CASE arguments = "notmapping" -> Raises
                             [] arguments = "badtype" ->
                                    Raises \cup Returns({FALSE})
                             [] OTHER -> Returns({FALSE}))
               [] tool_name = "get_time" ->
                    Called(self, request_id, tool_name, Returns({FALSE}))
               [] OTHER ->
                    {Ret(error_response(request_id, InvalidParams),
                         self.initialized, <<>>)}

\* handle_tool_call that defaults a missing tool name to "get_time".
handle_tool_call_default_name(self, request_id, params) ==
    LET p == IF params.pk = "mapping" /\ params.name = Absent
             THEN [params EXCEPT !.name = "get_time"] ELSE params
    IN  IF self.host = "mock"
        THEN MockMCPServer_handle_tool_call(self, request_id, p)
        ELSE HttpMCPServer_handle_tool_call(self, request_id, p)

handle_tool_call(self, request_id, params) ==
    IF self.host = "mock"
    THEN MockMCPServer_handle_tool_call(self, request_id, params)
    ELSE HttpMCPServer_handle_tool_call(self, request_id, params)

\* request.get("params", {}): the empty mapping when the key is absent.
ParamsOf(request) ==
    IF request.params.pk = Absent
    THEN [pk |-> "mapping", name |-> Absent, arguments |-> Absent]
    ELSE request.params

handle_request(self, request) ==
    IF request.kind # "object"
    THEN {Raise(self.initialized, <<>>)}       \* request.get: no such attribute
    ELSE LET method     == Get(request.method)
             params     == ParamsOf(request)
             request_id == Get(request.id)
         IN  CASE method = "initialize" ->
                    handle_initialize(self, request_id, params)
               [] method = "initialized" ->
                    {Ret(PyNone, TRUE, <<>>)}
               [] method = "tools/list" ->
                    handle_tools_list(self, request_id)
               [] method = "tools/call" ->
                    handle_tool_call(self, request_id, params)
               [] OTHER ->
                    {Ret(error_response(request_id, MethodNotFound),
                         self.initialized, <<>>)}

(***************************************************************************)
(* One iteration of the hosts' run(): what it prints for the raw line l    *)
(* and the state it leaves.                                                *)
(***************************************************************************)
\* Every except clause of the loop body is inside the for loop, so an
\* iteration that returns leaves run() in the loop.
Step(init, out, inv) ==
    [initialized |-> init, out |-> out, invoked |-> inv, pc |-> "loop"]

\* run with the except clauses in the other order: "except Exception" first,
\* so a JSONDecodeError is reported as an internal error.
run_except_order(self, l) ==
    LET line == strip(l) IN
    CASE line.body.kind = "blank" ->
            {Step(self.initialized, <<>>, <<>>)}
      [] line.body.kind = "malformed" ->
            {Step(self.initialized,
                  <<json_dumps(error_response(None, InternalError))>>, <<>>)}
      [] OTHER ->
            {CASE o.raised ->
                    Step(o.initialized,
                         <<json_dumps(error_response(None, InternalError))>>,
                         o.invoked)
               [] o.ret = PyNone ->
                    Step(o.initialized, <<>>, o.invoked)
               [] OTHER ->
                    Step(o.initialized, <<json_dumps(o.ret)>>, o.invoked)
             : o \in handle_request(self, json_loads(line))}

\* run() without the inner "except Exception": an exception raised while a
\* line is handled reaches the handler outside the for loop, which prints
\* nothing, and run() returns.
run_no_inner_except(self, l) ==
    LET line == strip(l) IN
    CASE line.body.kind = "blank" ->
            {Step(self.initialized, <<>>, <<>>)}
      [] line.body.kind = "malformed" ->
            {Step(self.initialized,
                  <<json_dumps(error_response(None, ParseError))>>, <<>>)}
      [] OTHER ->
            {CASE o.raised ->
                    [initialized |-> o.initialized, out |-> <<>>,
                     invoked |-> o.invoked, pc |-> "done"]
               [] o.ret = PyNone ->
                    Step(o.initialized, <<>>, o.invoked)
               [] OTHER ->
                    Step(o.initialized, <<json_dumps(o.ret)>>, o.invoked)
             : o \in handle_request(self, json_loads(line))}

\* run() without "if not line: continue": the empty string goes to
\* json.loads, which rejects it.
run_no_blank_skip(self, l) ==
    LET line == strip(l) IN
    CASE line.body.kind \in {"blank", "malformed"} ->
            {Step(self.initialized,
                  <<json_dumps(error_response(None, ParseError))>>, <<>>)}
      [] OTHER ->
            {CASE o.raised ->
                    Step(o.initialized,
                         <<json_dumps(error_response(None, InternalError))>>,
                         o.invoked)
               [] o.ret = PyNone ->
                    Step(o.initialized, <<>>, o.invoked)
               [] OTHER ->
                    Step(o.initialized, <<json_dumps(o.ret)>>, o.invoked)
             : o \in handle_request(self, json_loads(line))}

run(self, l) ==
    LET line == strip(l) IN
    CASE line.body.kind = "blank" ->
            {Step(self.initialized, <<>>, <<>>)}
      [] line.body.kind = "malformed" ->
            {Step(self.initialized,
                  <<json_dumps(error_response(None, ParseError))>>, <<>>)}
      [] OTHER ->
            {CASE o.raised ->
                    Step(o.initialized,
                         <<json_dumps(error_response(None, InternalError))>>,
                         o.invoked)
               [] o.ret = PyNone ->
                    Step(o.initialized, <<>>, o.invoked)
               [] OTHER ->
                    Step(o.initialized, <<json_dumps(o.ret)>>, o.invoked)
             : o \in handle_request(self, json_loads(line))}

(***************************************************************************)
(* The lines a caller may send to a host.                                  *)
(***************************************************************************)
KnownMethods == {"initialize", "initialized", "tools/list", "tools/call"}
Methods      == KnownMethods \cup {"ping", Absent}
Ids          == {"id1", "id2"}
ToolNames    == {"fetch_url", "check_weather", "get_time", "calculate",
                 "echo", "add", "nope", Absent}
ParamsSet    == {NoParams, [pk |-> "other", name |-> Absent, arguments |-> Absent]}
                \cup {[pk |-> "mapping", name |-> n, arguments |-> a] :
                        n \in ToolNames, a \in ArgKinds}
\* Only tools/call reads the members of params; for the other methods the
\* model draws params absent, a mapping, or a value that is no mapping.
ParamsFor(m) == IF m = "tools/call" THEN ParamsSet
                ELSE {NoParams,
                      [pk |-> "other", name |-> Absent, arguments |-> Absent],
                      [pk |-> "mapping", name |-> Absent, arguments |-> Absent]}
Requests     == UNION {{Object(m, i, p, NoResult, NoError) :
                          i \in Ids \cup {Absent}, p \in ParamsFor(m)} :
                       m \in Methods}
HostLines    == {Line(pad, b) : pad \in BOOLEAN,
                    b \in Requests \cup {Plain("blank"), Plain("malformed"),
                                         Plain("value")}}

Self == [host |-> role, initialized |-> initialized, tools |-> tools]

(***************************************************************************)
(* Host actions.                                                           *)
(***************************************************************************)
\* for line in sys.stdin: one iteration of the loop body.
HostRun ==
    /\ role \in Hosts
    /\ hpc = "loop"
    /\ \E l \in HostLines : \E s \in run(Self, l) :
          /\ hline' = l
          /\ hout' = s.out
          /\ invoked' = s.invoked
          /\ initialized' = s.initialized
          /\ hpc' = s.pc
    /\ wasInit' = initialized
    /\ UNCHANGED <<role, tools, relayVars>>

\* sys.stdin reaches end-of-stream: the for loop ends.
HostEOF ==
    /\ role \in Hosts
    /\ hpc = "loop"
    /\ hpc' = "done"
    /\ UNCHANGED <<role, initialized, tools, hline, hout, invoked, wasInit,
                   relayVars>>

\* KeyboardInterrupt while waiting for input: the handler logs and run() ends.
HostInterrupt ==
    /\ role \in Hosts
    /\ hpc = "loop"
    /\ hpc' = "done"
    /\ UNCHANGED <<role, initialized, tools, hline, hout, invoked, wasInit,
                   relayVars>>


(***************************************************************************)
(* The relay, MCPToolsClient.                                              *)
(*                                                                         *)
(* rpc is the position of its single thread:                               *)
(*   "loop"     run(): waiting for the next line of sys.stdin              *)
(*   "start"    handle_request: about to call start_server()               *)
(*   "send"     send_to_server: about to write to the child's stdin        *)
(*   "recv"     send_to_server: blocked in the child's stdout.readline()   *)
(*   "finally"  run(): entering the finally block                          *)
(*   "wait"     run(): terminate() called, blocked in wait()               *)
(*   "done"     run() returned                                             *)
(***************************************************************************)
MCPToolsClient_error_response(request_id, code) ==
    json_dumps(Object(Absent, request_id, NoParams, NoResult,
                      [ek |-> "present", code |-> code]))

\* The lines a caller may send to the relay.
RelayRequests ==
    {Object("tools/list", "id1", NoParams, NoResult, NoError),
     Object("tools/call", "id2",
            [pk |-> "mapping", name |-> "get_time", arguments |-> Absent],
            NoResult, NoError),
     Object("initialized", Absent, NoParams, NoResult, NoError)}
RelayLines    == {Line(pad, b) : pad \in BOOLEAN,
                    b \in RelayRequests \cup {Plain("blank"), Plain("malformed"),
                                              Plain("value")}}

\* The lines a child process may write to its stdout.  "undecodable" is a
\* line of bytes that the text-mode pipe cannot decode: readline() raises.
ChildLines    == {Line(pad, b) : pad \in BOOLEAN,
                    b \in {success_response(i, [rk |-> "tools", tools |-> <<>>,
                                                is_error |-> FALSE]) : i \in Ids}
                          \cup {Plain("blank"), Plain("malformed")}}
                 \cup {Line(FALSE, Plain("undecodable"))}

\* The line run() hands to handle_request, and the request it decodes to.
request_line == strip(rline)
request      == json_loads(request_line)

\* run() prints handle_request's return value and goes back to the loop.
Respond(text, b) ==
    /\ rout' = Append(rout, text)
    /\ branch' = b
    /\ rpc' = "loop"

\* A run() that remembers a failed spawn: once start_server() has returned
\* False, an envelope read while there is no child is answered with the
\* start-failure error without another attempt.
RelayRun_cached ==
    /\ role = "relay"
    /\ rpc = "loop"
    /\ \E l \in RelayLines :
          /\ rline' = l
          /\ response' = NoLine
          /\ CASE strip(l).body.kind = "blank" ->
                    /\ rout' = <<>>
                    /\ branch' = "skip"
                    /\ rpc' = "loop"
               [] strip(l).body.kind = "malformed" ->
                    /\ rout' = <<MCPToolsClient_error_response(None, ParseError)>>
                    /\ branch' = "parse_error"
                    /\ rpc' = "loop"
               [] strip(l).body.kind = "value" ->
                    /\ rout' = <<MCPToolsClient_error_response(None, InternalError)>>
                    /\ branch' = "exception"
                    /\ rpc' = "loop"
               [] server_process = None /\ startFailed
                    /\ strip(l).body.kind = "object" ->
                    /\ rout' = <<MCPToolsClient_error_response(
                                    Get(strip(l).body.id), InternalError)>>
                    /\ branch' = "start_failed"
                    /\ rpc' = "loop"
               [] OTHER ->
                    /\ Len(toChild) < MaxFwd
                    /\ rout' = <<>>
                    /\ branch' = "pending"
                    /\ rpc' = IF server_process = None THEN "start" ELSE "send"
    /\ UNCHANGED <<role, hostVars, pipeVars, startFailed, exitBy, server_process, child,
                   toChild, fromChild, termSent, reaped>>

\* A run() that makes sure the child exists before it decodes the line: a
\* malformed line read while there is no child spawns one.
RelayRun_spawn_first ==
    /\ role = "relay"
    /\ rpc = "loop"
    /\ \E l \in RelayLines :
          /\ rline' = l
          /\ response' = NoLine
          /\ CASE strip(l).body.kind = "blank" ->
                    /\ rout' = <<>>
                    /\ branch' = "skip"
                    /\ rpc' = "loop"
                    /\ UNCHANGED <<server_process, child, fromChild>>
               [] strip(l).body.kind = "malformed" ->
                    /\ rout' = <<MCPToolsClient_error_response(None, ParseError)>>
                    /\ branch' = "parse_error"
                    /\ rpc' = "loop"
                    /\ IF server_process = None
                       THEN /\ server_process' = "Popen"
                            /\ child' = "running"
                            /\ fromChild' = <<>>
                       ELSE UNCHANGED <<server_process, child, fromChild>>
               [] strip(l).body.kind = "value" ->
                    /\ rout' = <<MCPToolsClient_error_response(None, InternalError)>>
                    /\ branch' = "exception"
                    /\ rpc' = "loop"
                    /\ UNCHANGED <<server_process, child, fromChild>>
               [] OTHER ->
                    /\ Len(toChild) < MaxFwd
                    /\ rout' = <<>>
                    /\ branch' = "pending"
                    /\ rpc' = IF server_process = None THEN "start" ELSE "send"
                    /\ UNCHANGED <<server_process, child, fromChild>>
    /\ UNCHANGED <<role, hostVars, pipeVars, startFailed, exitBy, toChild, termSent,
                   reaped>>

\* A run() that spawns a replacement when the child it holds has exited.
RelayRun_respawn ==
    /\ role = "relay"
    /\ rpc = "loop"
    /\ \E l \in RelayLines :
          /\ rline' = l
          /\ response' = NoLine
          /\ CASE strip(l).body.kind = "blank" ->
                    /\ rout' = <<>>
                    /\ branch' = "skip"
                    /\ rpc' = "loop"
               [] strip(l).body.kind = "malformed" ->
                    /\ rout' = <<MCPToolsClient_error_response(None, ParseError)>>
                    /\ branch' = "parse_error"
                    /\ rpc' = "loop"
               [] strip(l).body.kind = "value" ->
                    /\ rout' = <<MCPToolsClient_error_response(None, InternalError)>>
                    /\ branch' = "exception"
                    /\ rpc' = "loop"
               [] OTHER ->
                    /\ Len(toChild) < MaxFwd
                    /\ rout' = <<>>
                    /\ branch' = "pending"
                    /\ rpc' = IF server_process = None \/ child = "exited"
                              THEN "start" ELSE "send"
    /\ UNCHANGED <<role, hostVars, pipeVars, startFailed, exitBy,
                   server_process, child, toChild, fromChild, termSent, reaped>>

\* for line in sys.stdin: read a line, strip it, skip it when blank, else
\* enter handle_request up to the first call that touches the child.
RelayRun ==
    /\ role = "relay"
    /\ rpc = "loop"
    /\ \E l \in RelayLines :
          /\ rline' = l
          /\ response' = NoLine
          /\ CASE strip(l).body.kind = "blank" ->
                    /\ rout' = <<>>
                    /\ branch' = "skip"
                    /\ rpc' = "loop"
               [] strip(l).body.kind = "malformed" ->
                    /\ rout' = <<MCPToolsClient_error_response(None, ParseError)>>
                    /\ branch' = "parse_error"
                    /\ rpc' = "loop"
               [] strip(l).body.kind = "value" ->
                    \* request.get('method') raises AttributeError
                    /\ rout' = <<MCPToolsClient_error_response(None, InternalError)>>
                    /\ branch' = "exception"
                    /\ rpc' = "loop"
               [] OTHER ->
                    /\ Len(toChild) < MaxFwd
                    /\ rout' = <<>>
                    /\ branch' = "pending"
                    /\ rpc' = IF server_process = None THEN "start" ELSE "send"
    /\ UNCHANGED <<role, hostVars, pipeVars, startFailed, exitBy, server_process, child,
                   toChild, fromChild, termSent, reaped>>

\* start_server that stores a handle before Popen is known to have worked.
start_server_keeps_handle ==
    /\ role = "relay"
    /\ rpc = "start"
    /\ \/ /\ server_process' = "Popen"
          /\ child' = "running"
          /\ fromChild' = <<>>
          /\ rpc' = "send"
          /\ UNCHANGED <<rout, branch, startFailed>>
       \/ /\ Respond(MCPToolsClient_error_response(Get(request.id), InternalError),
                     "start_failed")
          /\ startFailed' = TRUE
          /\ server_process' = "Popen"
          /\ UNCHANGED <<child, fromChild>>
    /\ UNCHANGED <<role, hostVars, pipeVars, rline, response, exitBy, toChild, termSent,
                   reaped>>

\* start_server(): Popen either yields a child with fresh pipes, or raises and
\* leaves self.server_process as it was; handle_request then returns the
\* start-failure error.
start_server ==
    /\ role = "relay"
    /\ rpc = "start"
    /\ \/ /\ server_process' = "Popen"
          /\ child' = "running"
          /\ fromChild' = <<>>
          /\ rpc' = "send"
          /\ UNCHANGED <<rout, branch, startFailed>>
       \/ /\ Respond(MCPToolsClient_error_response(Get(request.id), InternalError),
                     "start_failed")
          /\ startFailed' = TRUE
          /\ UNCHANGED <<server_process, child, fromChild>>
    /\ UNCHANGED <<role, hostVars, pipeVars, rline, response, exitBy, toChild, termSent,
                   reaped>>

\* send_to_server, lines 48-49: stdin.write(message + "\n"); flush().  The
\* write raises BrokenPipeError when the child is gone; the except clause
\* returns None and handle_request answers for the child.
send_to_server_write ==
    /\ role = "relay"
    /\ rpc = "send"
    /\ IF child = "running"
       THEN /\ toChild' = Append(toChild, request_line)
            /\ rpc' = "recv"
            /\ UNCHANGED <<rout, branch>>
       ELSE /\ Respond(MCPToolsClient_error_response(Get(request.id), InternalError),
                       "write_failed")
            /\ UNCHANGED toChild
    /\ UNCHANGED <<role, hostVars, pipeVars, startFailed, rline, response, exitBy,
                   server_process, child, fromChild, termSent, reaped>>

\* send_to_server, line 53: response.strip() if response else None, for the
\* text readline() returned ("" at end-of-stream, else a line with its "\n").
NoReply == Line(FALSE, PyNone)
Reply(eof, text) ==
    IF eof THEN NoReply ELSE strip(text)

\* The test "if response_line is not None" in place of "if response_line".
Relayed_not_none(request_id, response_line) ==
    IF response_line # NoReply
    THEN response_line
    ELSE MCPToolsClient_error_response(request_id, InternalError)

\* handle_request, lines 70-73: a truthy response_line is returned as it is;
\* None or the empty string become the no-response error.
Relayed(request_id, response_line) ==
    IF response_line # NoReply /\ response_line.body.kind # "blank"
    THEN response_line
    ELSE MCPToolsClient_error_response(request_id, InternalError)

\* send_to_server, line 52, and the rest of handle_request.
send_to_server_read ==
    /\ role = "relay"
    /\ rpc = "recv"
    /\ \/ /\ fromChild # <<>>
          /\ Head(fromChild).body.kind # "undecodable"
          /\ fromChild' = Tail(fromChild)
          /\ response' = Head(fromChild)
          /\ LET response_line == Reply(FALSE, Head(fromChild)) IN
             Respond(Relayed(Get(request.id), response_line),
                     IF response_line.body.kind = "blank"
                     THEN "empty_reply" ELSE "relayed")
       \/ /\ fromChild # <<>>
          /\ Head(fromChild).body.kind = "undecodable"
          /\ fromChild' = Tail(fromChild)
          /\ UNCHANGED response
          /\ Respond(Relayed(Get(request.id), NoReply), "read_failed")
       \/ /\ fromChild = <<>>
          /\ child = "exited"
          /\ UNCHANGED <<fromChild, response>>
          /\ Respond(Relayed(Get(request.id), Reply(TRUE, NoLine)), "eof")
    /\ UNCHANGED <<role, hostVars, pipeVars, startFailed, rline, exitBy, server_process, child,
                   toChild, termSent, reaped>>

\* sys.stdin reaches end-of-stream: the for loop ends, the finally block runs.
RelayEOF ==
    /\ role = "relay"
    /\ rpc = "loop"
    /\ rpc' = "finally"
    /\ exitBy' = "eof"
    /\ UNCHANGED <<role, hostVars, pipeVars, startFailed, rline, rout, branch, response,
                   server_process, child, toChild, fromChild, termSent, reaped>>

\* KeyboardInterrupt: no "except Exception" clause catches it, so it leaves
\* handle_request and send_to_server wherever they are and reaches run().
\* The model delivers one interrupt, while the loop runs.
RelayInterrupt ==
    /\ role = "relay"
    /\ rpc \in {"loop", "start", "send", "recv"}
    /\ rpc' = "finally"
    /\ exitBy' = "interrupt"
    /\ UNCHANGED <<role, hostVars, pipeVars, startFailed, rline, rout, branch, response,
                   server_process, child, toChild, fromChild, termSent, reaped>>

\* An exception raised in run() outside handle_request (sys.stdin cannot be
\* read or decoded): "except Exception" logs it and the finally block runs.
RelayError ==
    /\ role = "relay"
    /\ rpc = "loop"
    /\ rpc' = "finally"
    /\ exitBy' = "error"
    /\ UNCHANGED <<role, hostVars, pipeVars, startFailed, rline, rout, branch, response,
                   server_process, child, toChild, fromChild, termSent, reaped>>

\* finally: if self.server_process: self.server_process.terminate()
RelayTerminate ==
    /\ role = "relay"
    /\ rpc = "finally"
    /\ IF server_process # None
       THEN termSent' = TRUE /\ rpc' = "wait"
       ELSE UNCHANGED termSent /\ rpc' = "done"
    /\ UNCHANGED <<role, hostVars, pipeVars, startFailed, rline, rout, branch, response, exitBy,
                   server_process, child, toChild, fromChild, reaped>>

\* The finally block without the wait(): terminate() and return.
RelayWait_no_wait ==
    /\ role = "relay"
    /\ rpc = "wait"
    /\ reaped' = FALSE
    /\ rpc' = "done"
    /\ UNCHANGED <<role, hostVars, pipeVars, startFailed, rline, rout, branch, response, exitBy,
                   server_process, child, toChild, fromChild, termSent>>

\* self.server_process.wait() returns once the child has exited.
RelayWait ==
    /\ role = "relay"
    /\ rpc = "wait"
    /\ child = "exited"
    /\ reaped' = TRUE
    /\ rpc' = "done"
    /\ UNCHANGED <<role, hostVars, pipeVars, startFailed, rline, rout, branch, response, exitBy,
                   server_process, child, toChild, fromChild, termSent>>

\* The child writes a line to its stdout.
ChildWrite ==
    /\ role = "relay"
    /\ child = "running"
    /\ Len(fromChild) < MaxPipe
    /\ \E l \in ChildLines : fromChild' = Append(fromChild, l)
    /\ UNCHANGED <<role, hostVars, pipeVars, startFailed, rpc, rline, rout, branch, response, exitBy,
                   server_process, child, toChild, termSent, reaped>>

\* The child exits: on its own, by a crash, or killed by the signal
\* terminate() sent.
ChildExit ==
    /\ role = "relay"
    /\ child = "running"
    /\ child' = "exited"
    /\ UNCHANGED <<role, hostVars, pipeVars, startFailed, rpc, rline, rout, branch, response, exitBy,
                   server_process, toChild, fromChild, termSent, reaped>>

(***************************************************************************)
(* The specification.                                                      *)
(***************************************************************************)
Init ==
    /\ role \in Roles
    /\ initialized = FALSE
    /\ tools = IF role \in Hosts THEN Catalog(role) ELSE <<>>
    /\ hpc = "loop"
    /\ hline = NoLine
    /\ hout = <<>>
    /\ invoked = <<>>
    /\ wasInit = FALSE
    /\ rpc = "loop"
    /\ rline = NoLine
    /\ rout = <<>>
    /\ branch = "none"
    /\ response = NoLine
    /\ exitBy = "none"
    /\ server_process = None
    /\ child = "none"
    /\ toChild = <<>>
    /\ fromChild = <<>>
    /\ termSent = FALSE
    /\ reaped = FALSE
    /\ startFailed = FALSE
    /\ consumed = 0
    /\ errPipe = 0

Next ==
    \/ HostRun
    \/ HostEOF
    \/ HostInterrupt
    \/ RelayRun
    \/ start_server
    \/ send_to_server_write
    \/ send_to_server_read
    \/ RelayEOF
    \/ RelayInterrupt
    \/ RelayError
    \/ RelayTerminate
    \/ RelayWait
    \/ ChildWrite
    \/ ChildExit

Spec == Init /\ [][Next]_vars

(***************************************************************************)
(* The relayed deployment: the relay together with the child it spawns,    *)
(* /app/http_mcp_server.py.  The child is an HttpMCPServer whose stdin is  *)
(* toChild, whose stdout is fromChild and whose stderr is the third pipe   *)
(* start_server() creates and nothing ever reads.  The host variables hold *)
(* the child's state.  The caller keeps its end of the relay's stdin open  *)
(* and the child does not die, so the relay's exits and the child's exit   *)
(* are left out.                                                           *)
(***************************************************************************)
\* The lines the http host logs to stderr, at level INFO, for a line that it
\* handles without raising: "Client confirmed initialization", "Initialize
\* request from client", "Tool call", and the two logging.error calls of
\* run().  tools/list and unknown methods log at level DEBUG only.
Logs(l) ==
    LET b == strip(l).body IN
    CASE b.kind = "blank"  -> 0
      [] b.kind # "object" -> 1
      [] b.method \in {"initialize", "initialized", "tools/call"} -> 1
      [] OTHER -> 0

\* The child's next unread line, and whether its log write would block: a
\* write to a full pipe blocks until the reader drains it.
Unread  == consumed < Len(toChild)
Pending == toChild[consumed + 1]
StderrFull == errPipe + Logs(Pending) > StderrCap

\* One iteration of the child's run(): it reads the next line the relay
\* wrote, logs, and prints what HttpMCPServer.run prints for that line.
ChildHostRun ==
    /\ role = "relay"
    /\ child = "running"
    /\ Unread
    /\ ~StderrFull
    /\ \E s \in run([host |-> "http", initialized |-> initialized,
                     tools |-> tools], Pending) :
          /\ hline' = Pending
          /\ hout' = s.out
          /\ invoked' = s.invoked
          /\ initialized' = s.initialized
          /\ hpc' = s.pc
          /\ fromChild' = fromChild \o s.out
    /\ wasInit' = initialized
    /\ consumed' = consumed + 1
    /\ errPipe' = errPipe + Logs(Pending)
    /\ UNCHANGED <<role, tools, rpc, rline, rout, branch, response, exitBy,
                   server_process, child, toChild, termSent, reaped,
                   startFailed>>

DeployInit ==
    /\ role = "relay"
    /\ initialized = FALSE
    /\ tools = Catalog("http")
    /\ hpc = "loop"
    /\ hline = NoLine
    /\ hout = <<>>
    /\ invoked = <<>>
    /\ wasInit = FALSE
    /\ rpc = "loop"
    /\ rline = NoLine
    /\ rout = <<>>
    /\ branch = "none"
    /\ response = NoLine
    /\ exitBy = "none"
    /\ server_process = None
    /\ child = "none"
    /\ toChild = <<>>
    /\ fromChild = <<>>
    /\ termSent = FALSE
    /\ reaped = FALSE
    /\ startFailed = FALSE
    /\ consumed = 0
    /\ errPipe = 0

DeployNext ==
    \/ RelayRun
    \/ start_server
    \/ send_to_server_write
    \/ send_to_server_read
    \/ ChildHostRun

\* Both processes are scheduled: a call that can return does return.  No
\* fairness is asked of RelayRun: the caller need not send another line.
Deployed ==
    /\ DeployInit
    /\ [][DeployNext]_vars
    /\ WF_vars(start_server)
    /\ WF_vars(send_to_server_write)
    /\ WF_vars(send_to_server_read)
    /\ WF_vars(ChildHostRun)


(***************************************************************************)
(* Vocabulary of the properties.                                           *)
(***************************************************************************)
\* The host has handled a line; hreq is what the line decoded to.
HostHandled == role \in Hosts /\ hline # NoLine
hreq        == json_loads(strip(hline))
HostDecoded == HostHandled /\ hreq.kind = "object"

\* The iteration printed exactly one line, an error response with this code
\* and id (and no result member).
OneError(out, code, id) ==
    /\ Len(out) = 1
    /\ out[1].pad = FALSE
    /\ out[1].body.kind = "object"
    /\ out[1].body.error.ek = "present"
    /\ out[1].body.error.code = code
    /\ out[1].body.result.rk = Absent
    /\ out[1].body.id = id

\* The tool names the host advertises.
Registered(h) == {Catalog(h)[k] : k \in 1..Len(Catalog(h))}

\* C1: a host answers every decoded request whose method is none of
\* initialize, initialized, tools/list, tools/call with one error response of
\* code -32601 that carries the request's id, initialized or not.
C1_UnknownMethodNotFound ==
    (HostDecoded /\ hreq.method \notin KnownMethods)
        => OneError(hout, MethodNotFound, Get(hreq.id))

\* C1 witness: an unknown method with id "id2" answered after the handshake.
C1_Witness ==
    /\ HostDecoded
    /\ hreq.method = "ping"
    /\ hreq.id = "id2"
    /\ wasInit
    /\ OneError(hout, MethodNotFound, "id2")

\* The relay has handled a line.
RelayHandled == role = "relay" /\ rline # NoLine /\ rpc = "loop"

\* C2: in both run loops a non-blank line that json.loads rejects gets
\* exactly one output line, an error response with code -32700 and id null.
C2_MalformedParseError ==
    /\ (HostHandled /\ strip(hline).body.kind = "malformed")
          => OneError(hout, ParseError, None)
    /\ (RelayHandled /\ strip(rline).body.kind = "malformed")
          => OneError(rout, ParseError, None)

\* C2 witness: the relay, with its child running, answers a malformed line
\* that carried surrounding whitespace.
C2_Witness ==
    /\ RelayHandled
    /\ rline = Line(TRUE, Plain("malformed"))
    /\ child = "running"
    /\ OneError(rout, ParseError, None)

\* C3: a host prints nothing for a decoded envelope that carries no id,
\* whatever its method.
C3_NotificationSilent ==
    (HostDecoded /\ hreq.id = Absent) => hout = <<>>


\* C4: self.initialized is false at construction, is true once an
\* 'initialized' notification has been handled, and no step of the host sets
\* it back to false (a repeated notification leaves it true).
C4_InitializedMonotonic ==
    /\ ~initialized
    /\ [][/\ initialized => initialized'
          /\ (role \in Hosts /\ hline' # NoLine
              /\ json_loads(strip(hline')).kind = "object"
              /\ json_loads(strip(hline')).method = "initialized")
                => initialized']_vars

\* C4 witness: a repeated 'initialized' notification, handled when the flag
\* was already true, and the flag still true.
C4_Witness ==
    /\ HostDecoded
    /\ hreq.method = "initialized"
    /\ hreq.id = Absent
    /\ wasInit
    /\ initialized

\* One success response carrying this id and a result, no error member.
OneSuccess(out, id) ==
    /\ Len(out) = 1
    /\ out[1].pad = FALSE
    /\ out[1].body.kind = "object"
    /\ out[1].body.error.ek = Absent
    /\ out[1].body.result.rk # Absent
    /\ out[1].body.id = id

\* C5: in every reachable state self.tools is the catalog built at
\* construction, and every tools/list request is answered by one success
\* response whose result.tools is that catalog, in order.
C5_CatalogFixed ==
    role \in Hosts =>
        /\ tools = Catalog(role)
        /\ (HostDecoded /\ hreq.method = "tools/list")
              => /\ OneSuccess(hout, Get(hreq.id))
                 /\ hout[1].body.result.rk = "tools"
                 /\ hout[1].body.result.tools = Catalog(role)

\* C5 witness: tools/list answered with the four descriptors of the http
\* host, before the handshake completed.
C5_Witness ==
    /\ HostDecoded
    /\ role = "http"
    /\ hreq.method = "tools/list"
    /\ hreq.id = "id1"
    /\ ~wasInit
    /\ hout[1].body.result.tools = HttpTools

\* C6: a tools/call whose params name no registered tool (the name is
\* missing, or is not in the catalog) gets one error response with code
\* -32602 and the request's id, and runs no tool handler.  params is a
\* mapping or absent here; a params value without members has no name.
C6_UnknownToolInvalidParams ==
    (HostDecoded /\ hreq.method = "tools/call" /\ hreq.params.pk # "other"
        /\ hreq.params.name \notin Registered(role))
        => /\ OneError(hout, InvalidParams, Get(hreq.id))
           /\ invoked = <<>>

\* C6 witness: the http host is asked for "echo", a tool only the mock host
\* has, with arguments that are no mapping.
C6_Witness ==
    /\ HostDecoded
    /\ role = "http"
    /\ hreq.method = "tools/call"
    /\ hreq.params.name = "echo"
    /\ hreq.params.arguments = "notmapping"
    /\ hreq.id = "id2"
    /\ OneError(hout, InvalidParams, "id2")
    /\ invoked = <<>>


\* The child is running: it was spawned and has not exited.
Running == role = "relay" /\ server_process = "Popen" /\ child = "running"

\* C7: with the child running, every inbound line that json.loads accepts
\* is the last line written to the child's stdin once it is handled, and
\* whenever readline() returned a non-empty line the relay printed exactly
\* that line.
C7_RelayVerbatim ==
    /\ (RelayHandled /\ Running
        /\ strip(rline).body.kind \in {"value", "object"})
          => /\ toChild # <<>>
             /\ toChild[Len(toChild)] = strip(rline)
    /\ (RelayHandled /\ response # NoLine
        /\ response # Line(FALSE, Plain("blank")))
          => rout = <<response>>

\* C8: when start_server() fails for a decoded request, the relay prints one
\* error response with code -32603 and the request's id, has written nothing
\* to a child pipe, and still has no child.
C8_StartFailure ==
    (RelayHandled /\ branch = "start_failed")
        => /\ OneError(rout, InternalError, Get(request.id))
           /\ toChild = <<>>
           /\ fromChild = <<>>
           /\ server_process = None
           /\ child = "none"

\* C8 witness: the start fails for the request with id "id2".
C8_Witness ==
    /\ RelayHandled
    /\ branch = "start_failed"
    /\ request.id = "id2"
    /\ OneError(rout, InternalError, "id2")
    /\ server_process = None

\* C9: when the write to the child fails, or readline() meets end-of-stream,
\* an empty line or a read error, the relay prints exactly one error response
\* with code -32603 and the id of the request it was forwarding.
C9_NoReplyError ==
    /\ (RelayHandled
        /\ branch \in {"write_failed", "eof", "empty_reply", "read_failed"})
          => OneError(rout, InternalError, Get(request.id))
    /\ (RelayHandled /\ response # NoLine /\ strip(response).body.kind = "blank")
          => OneError(rout, InternalError, Get(request.id))

\* C9 witness: the second forwarded request, id "id2", meets end-of-stream.
C9_Witness ==
    /\ RelayHandled
    /\ branch = "eof"
    /\ Len(toChild) = 2
    /\ request.id = "id2"
    /\ child = "exited"
    /\ OneError(rout, InternalError, "id2")

\* C10: when run() has returned, no child the relay spawned is running: if
\* it spawned one, it called terminate() and wait() returned after the child
\* exited.  A child exists only through a successful start_server().
C10_NoOrphan ==
    /\ (role = "relay" /\ child # "none") => server_process = "Popen"
    /\ (role = "relay" /\ rpc = "done")
          => /\ child # "running"
             /\ server_process = "Popen"
                  => (termSent /\ reaped /\ child = "exited")

\* C10 witness: a KeyboardInterrupt while the relay waits for the child's
\* reply; the child is terminated and reaped before run() returns.
C10_Witness ==
    /\ role = "relay"
    /\ rpc = "done"
    /\ exitBy = "interrupt"
    /\ branch = "pending"
    /\ toChild # <<>>
    /\ child = "exited"
    /\ termSent
    /\ reaped

(***************************************************************************)
(* Tool failures, the connection state as a gate, envelope shape.          *)
(***************************************************************************)
\* The decoded request is a tools/call whose params mapping names a tool of
\* this host's catalog.
RegisteredCall ==
    /\ HostDecoded
    /\ hreq.method = "tools/call"
    /\ hreq.params.pk = "mapping"
    /\ hreq.params.name \in Registered(role)

\* C11: a host answers every tools/call that names a registered tool,
\* whatever the arguments member holds, with one success response that
\* carries the request's id and a tool result (content and is_error), and
\* never with an error response.
C11_ToolFailureIsResult ==
    RegisteredCall
        => /\ OneSuccess(hout, Get(hreq.id))
           /\ hout[1].body.result.rk = "tool"

\* What run() can print for the line it handled, had self.initialized been b
\* when the line arrived.
Printed(b) ==
    {s.out : s \in run([host |-> role, initialized |-> b, tools |-> tools],
                       hline)}

\* C12: the connection state is no access gate.  For every tools/list or
\* tools/call request a host has handled, the lines it can print are the
\* same whether the request arrives before or after the handshake, and the
\* line it did print is one it can also print in the other connection state.
C12_NoInitGate ==
    (HostDecoded /\ hreq.method \in {"tools/list", "tools/call"})
        => /\ Printed(FALSE) = Printed(TRUE)
           /\ hout \in Printed(~wasInit)

\* C12 witness: before any handshake a registered tool is called with good
\* arguments and answered with a result that is no error.
C12_Witness ==
    /\ RegisteredCall
    /\ ~wasInit
    /\ hreq.params.arguments = "good"
    /\ hreq.id = "id1"
    /\ invoked = <<hreq.params.name>>
    /\ OneSuccess(hout, "id1")
    /\ hout[1].body.result.is_error = FALSE

\* The line is a response envelope with a result member or an error member,
\* and not both.
ExactlyOne(l) ==
    /\ l.body.kind = "object"
    /\ l.body.method = Absent
    /\ (l.body.result.rk # Absent) # (l.body.error.ek # Absent)

\* C13: every line a host prints, and every line the relay prints that it
\* built itself (every line but a relayed child reply), is a response that
\* carries exactly one of result and error.
C13_ResultXorError ==
    /\ role \in Hosts => \A i \in 1..Len(hout) : ExactlyOne(hout[i])
    /\ (role = "relay" /\ branch # "relayed")
          => \A i \in 1..Len(rout) : ExactlyOne(rout[i])

\* C13 witness: fetch_url reports its own failure: the response has a result
\* with is_error true and no error member.
C13_Witness ==
    /\ RegisteredCall
    /\ invoked = <<"fetch_url">>
    /\ OneSuccess(hout, Get(hreq.id))
    /\ hout[1].body.result.is_error
    /\ ExactlyOne(hout[1])

(***************************************************************************)
(* The hosts' loop: bad lines and the frame of each input.                 *)
(***************************************************************************)
\* A step in which a host's run() handles a line: the only host steps that
\* change what the current iteration read, printed, invoked or found.
HostIteration ==
    /\ role \in Hosts
    /\ hpc = "loop"
    /\ <<hline, hout, invoked, wasInit, initialized>>'
          # <<hline, hout, invoked, wasInit, initialized>>

\* The line is rejected by json.loads, decodes to something that is no
\* object, names an unknown method, or makes its handling raise in a host
\* whose state is self.
BadLine(self, l) ==
    LET b == strip(l).body IN
    \/ b.kind = "malformed"
    \/ b.kind \notin {"blank", "malformed", "object"}
    \/ b.kind = "object" /\ b.method \notin KnownMethods
    \/ b.kind = "object" /\ \A o \in handle_request(self, b) : o.raised

\* The iteration printed exactly one line, an error response.
OneErrorLine(out) ==
    /\ Len(out) = 1
    /\ out[1].body.kind = "object"
    /\ out[1].body.error.ek = "present"
    /\ out[1].body.result.rk = Absent

\* C14: no line a host handles ends its loop, and a bad line (malformed,
\* not an object, unknown method, or one whose handling raises) makes the
\* host print exactly one error response and leaves the flag and the
\* catalog, which are all that later answers depend on, as they were.
C14_BadLineIsolated ==
    [][HostIteration
          => /\ hpc' = "loop"
             /\ BadLine(Self, hline')
                   => /\ OneErrorLine(hout')
                      /\ initialized' = initialized
                      /\ tools' = tools]_vars

\* C14 witness: after the handshake a tools/call whose params is no mapping
\* raised; the host printed one -32603 error, is still in its loop and is
\* still initialized.
C14_Witness ==
    /\ HostDecoded
    /\ hreq.method = "tools/call"
    /\ hreq.params.pk = "other"
    /\ wasInit
    /\ initialized
    /\ hpc = "loop"
    /\ OneError(hout, InternalError, None)

\* C15: the only input that changes a host's state is the 'initialized'
\* notification: a step that changes self.initialized or self.tools is a
\* host iteration whose line decodes to an object with that method, so
\* initialize, tools/list, tools/call, unknown methods, blank lines and
\* malformed lines leave both as they were.
C15_OnlyInitializedWrites ==
    [][(initialized' # initialized \/ tools' # tools)
          => /\ HostIteration
             /\ strip(hline').body.kind = "object"
             /\ strip(hline').body.method = "initialized"]_vars

\* C15 witness: an initialize request answered before the handshake leaves
\* the flag false and the catalog as built.
C15_Witness ==
    /\ HostDecoded
    /\ hreq.method = "initialize"
    /\ OneSuccess(hout, Get(hreq.id))
    /\ ~wasInit
    /\ ~initialized
    /\ tools = Catalog(role)

(***************************************************************************)
(* The relay: spawning, forwarding, and the lines it does not forward.     *)
(***************************************************************************)
\* A step in which the relay's run() reads a line.
RelayIteration ==
    /\ role = "relay"
    /\ rpc = "loop"
    /\ rpc' # "finally"
    /\ <<rpc, rline, rout, branch, response>>'
          # <<rpc, rline, rout, branch, response>>

\* C16: a failed spawn is not remembered.  Every envelope the relay reads
\* while it holds no child handle leads to a call of start_server(), whether
\* or not an earlier call failed; a call that fails answers that envelope
\* with the -32603 start-failure error and leaves the relay without a child;
\* a call that succeeds leaves a running child and the same envelope is the
\* next thing written to it.
C16_StartRetried ==
    [][/\ (RelayIteration /\ server_process = None
               /\ strip(rline').body.kind = "object")
            => rpc' = "start"
       /\ (rpc = "start" /\ rpc' = "loop")
            => /\ rout' = <<MCPToolsClient_error_response(
                               Get(request.id), InternalError)>>
               /\ server_process' = None
               /\ child' = "none"
               /\ toChild' = toChild
       /\ (rpc = "start" /\ rpc' \notin {"start", "loop", "finally"})
            => /\ rpc' = "send"
               /\ server_process' = "Popen"
               /\ child' = "running"
               /\ rline' = rline
       /\ (rpc = "send" /\ child = "running"
               /\ rpc' \notin {"send", "finally"})
            => toChild' = Append(toChild, strip(rline))]_vars

\* C16 witness: after a spawn that failed, a later envelope's spawn
\* succeeded, and that envelope is the first line the child received and has
\* been answered.
C16_Witness ==
    /\ RelayHandled
    /\ startFailed
    /\ server_process = "Popen"
    /\ toChild = <<strip(rline)>>
    /\ branch = "relayed"
    /\ OneSuccess(rout, request.id)

\* C17: a malformed line never reaches the child.  The step that reads it
\* prints the -32700 error and changes neither the child handle, nor the
\* child, nor what has been written to the child; and as long as it is the
\* current line the relay is at no call that spawns, writes to or reads from
\* the child, the handle stays as it was and nothing is written.
C17_MalformedBypassesChild ==
    [][(role = "relay" /\ strip(rline').body.kind = "malformed")
          => /\ server_process' = server_process
             /\ toChild' = toChild
             /\ rpc' \notin {"start", "send", "recv"}
             /\ RelayIteration
                   => /\ rout' = <<MCPToolsClient_error_response(
                                      None, ParseError)>>
                      /\ child' = child
                      /\ fromChild' = fromChild]_vars

\* C17 witness: a malformed line answered by a relay that has never tried to
\* spawn its child: there is still no handle, no child and nothing written.
C17_Witness ==
    /\ RelayHandled
    /\ strip(rline).body.kind = "malformed"
    /\ branch = "parse_error"
    /\ server_process = None
    /\ child = "none"
    /\ ~startFailed
    /\ toChild = <<>>
    /\ OneError(rout, ParseError, None)

\* C18: every parseable line the relay reads while its child is running goes
\* on to be written to the child; the child's input grows only by the
\* current line, appended once by send_to_server; and a line is read only
\* when no forwarded envelope is still waiting for its reply.
C18_ForwardedOnceInOrder ==
    [][/\ (RelayIteration /\ Running
               /\ strip(rline').body.kind \in {"value", "object"})
            => rpc' = "send"
       /\ toChild' # toChild
            => /\ rpc = "send"
               /\ rpc' = "recv"
               /\ toChild' = Append(toChild, strip(rline))
       /\ RelayIteration => branch # "pending"]_vars

\* C19: a blank line, empty or whitespace only, is skipped in both roles.
\* A host that reads one prints nothing, invokes no tool and keeps its flag
\* and catalog; the relay that reads one prints nothing, does not enter
\* handle_request, stays in its loop, and changes neither the child handle,
\* nor the child, nor what has been written to the child.
C19_BlankSkipped ==
    [][/\ (HostIteration /\ strip(hline').body.kind = "blank")
            => /\ hout' = <<>>
               /\ invoked' = <<>>
               /\ initialized' = initialized
               /\ tools' = tools
               /\ hpc' = "loop"
       /\ (RelayIteration /\ strip(rline').body.kind = "blank")
            => /\ rout' = <<>>
               /\ branch' = "skip"
               /\ rpc' = "loop"
               /\ server_process' = server_process
               /\ child' = child
               /\ toChild' = toChild]_vars

\* C19 witness: a whitespace-only line read by a relay whose child is
\* running and has already been sent one line: nothing is printed and the
\* child's input is still that one line.
C19_Witness ==
    /\ RelayHandled
    /\ rline = Line(TRUE, Plain("blank"))
    /\ branch = "skip"
    /\ rout = <<>>
    /\ Running
    /\ Len(toChild) = 1

\* C20: every line a host prints for a decoded request that carries an id
\* is a response with that same id, be it a success response or an error
\* response (method not found, invalid params, internal error).
C20_IdEchoed ==
    (HostDecoded /\ hreq.id # Absent)
        => \A k \in 1..Len(hout) : hout[k].body.id = hreq.id

(***************************************************************************)
(* The relayed deployment: progress, the stderr pipe, the child lifecycle. *)
(***************************************************************************)
\* The relay is inside send_to_server, blocked in the child's
\* stdout.readline().
AwaitingReply == role = "relay" /\ rpc = "recv"

\* The relay has finished the current line with one output line of this id.
Answered(i) ==
    /\ rpc = "loop"
    /\ Len(rout) = 1
    /\ rout[1].body.kind = "object"
    /\ rout[1].body.id = i

\* C21: in the relayed deployment, with the child started and alive, the
\* relay never waits forever for a reply from the child, and every request
\* with an id it has taken up is eventually answered by one output line
\* that carries that id, whatever mix of requests and notifications
\* ('initialized' included) the caller sends.
C21_EveryRequestAnswered ==
    /\ AwaitingReply ~> rpc = "loop"
    /\ \A i \in Ids :
          (Running /\ branch = "pending" /\ request.id = i) ~> Answered(i)

\* C22: the pipes between the relay and its child cannot deadlock: in no
\* reachable state is the relay blocked reading the child's stdout while the
\* child, having a request to handle, is blocked writing its log line to a
\* full stderr pipe.
C22_NoPipeDeadlock ==
    ~(/\ AwaitingReply
      /\ fromChild = <<>>
      /\ child = "running"
      /\ Unread
      /\ StderrFull)

====
